---- MODULE Spec2Model ----
(***************************************************************************)
(* A model of evolver.py: the VectorEvolver generation ledger (a min-heap  *)
(* of [priority, cid] entries kept by heapq, the cid -> child dictionary,  *)
(* the priority log, the parent list and the generation counter) and the   *)
(* MatrixEvolver vector <-> matrices conversion.                           *)
(*                                                                         *)
(* Priorities are floats in the source; the model uses the integers        *)
(* 1..MaxPriority (only their order, sum and squares are ever used).       *)
(* Vectors are numpy arrays in the source; the model uses sequences over   *)
(* {0,1}.  A cid is a uuid.uuid1() value: unique for the process, with no  *)
(* guaranteed order relative to issue time, so the model draws it from the *)
(* identifiers not issued yet.                                             *)
(***************************************************************************)
EXTENDS Integers, Sequences, FiniteSets, TLC

VARIABLES
    vec_size,               \* self._vec_size
    crossover_type,         \* self.crossover_type
    mutation_type,          \* self.mutation_type
    child_dict,             \* self._child_dict : cid -> child
    child_heap,             \* self._child_heap : list of <<priority, cid>>
    generation,             \* self._generation
    generation_priorities,  \* self._generation_priorities
    parents,                \* self._parents
    matrix_sizes,           \* MatrixEvolver._matrix_sizes
    op,                     \* the call made last
    arg,                    \* its arguments
    ret,                    \* its return value (or the exception it raised)
    issued,                 \* history: every cid uuid1() has returned
    added,                  \* history: the add_child calls of this generation
    n_updates,              \* history: number of update_parents calls
    threads,                \* the add_child call each evaluator thread is in
    raced                   \* history: two add_child calls overlapped

vars == <<vec_size, crossover_type, mutation_type, child_dict, child_heap,
          generation, generation_priorities, parents, matrix_sizes,
          op, arg, ret, issued, added, n_updates, threads, raced>>

evolver_vars == <<child_dict, child_heap, generation, generation_priorities,
                  parents, issued, added, n_updates>>

config_vars == <<vec_size, crossover_type, mutation_type, matrix_sizes>>

thread_vars == <<threads, raced>>

----------------------------------------------------------------------------
(* Bounds of the model *)

VecSize == 2          \* size passed to the VectorEvolver constructor
MaxPriority == 3      \* priorities are 1..MaxPriority
MaxCids == 3          \* number of uuids the run may draw
MaxGen == 2           \* update_parents is called at most MaxGen times
MaxCidsSmall == 2     \* number of uuids drawn where the configuration varies
MaxValue == 2         \* crossover and mutate are also called on values 0..MaxValue
NumThreads == 2       \* evaluator threads that call add_child in parallel

(* Program constants *)

NumParents == 2

Bits == {0, 1}
Priorities == 1..MaxPriority
CIDs == 1..MaxCids
Genomes(n) == [1..n -> Bits]
Threads == 1..NumThreads
Idle == [pc |-> "idle", priority |-> 0, cid |-> 0, full |-> FALSE]

\* what a call hands back: a value, or the exception it raised
None == "None"
Ok(v) == [exception |-> "", value |-> v]
Raised(e) == [exception |-> e, value |-> None]
IsRaised(r) == r.exception # ""

----------------------------------------------------------------------------
(* heapq, on Python lists modelled as sequences (index i is h[i+1]) *)

\* Python list comparison of two [priority, cid] entries
EntryLt(a, b) == \/ a[1] < b[1]
                 \/ a[1] = b[1] /\ a[2] < b[2]

SetAt(h, i, x) == [h EXCEPT ![i + 1] = x]

RECURSIVE siftdown_loop(_, _, _, _)
siftdown_loop(h, startpos, pos, newitem) ==
    IF pos > startpos
    THEN LET parentpos == (pos - 1) \div 2
             parent == h[parentpos + 1]
         IN  IF EntryLt(newitem, parent)
             THEN siftdown_loop(SetAt(h, pos, parent), startpos, parentpos, newitem)
             ELSE SetAt(h, pos, newitem)
    ELSE SetAt(h, pos, newitem)

siftdown(h, startpos, pos) == siftdown_loop(h, startpos, pos, h[pos + 1])

RECURSIVE siftup_loop(_, _, _, _)
siftup_loop(h, startpos, pos, newitem) ==
    LET endpos == Len(h)
        childpos == 2 * pos + 1
        rightpos == childpos + 1
    IN  IF childpos < endpos
        THEN LET c == IF rightpos < endpos
                         /\ ~EntryLt(h[childpos + 1], h[rightpos + 1])
                      THEN rightpos ELSE childpos
             IN  siftup_loop(SetAt(h, pos, h[c + 1]), startpos, c, newitem)
        ELSE siftdown(SetAt(h, pos, newitem), startpos, pos)

siftup(h, pos) == siftup_loop(h, pos, pos, h[pos + 1])

heappush(h, item) == siftdown(Append(h, item), 0, Len(h))

\* a variant that overwrites the last entry of the list instead of the root
heapreplace_last(h, item) == SetAt(h, Len(h) - 1, item)

\* pops the smallest entry and pushes item, whatever item's priority is
heapreplace(h, item) == siftup(SetAt(h, 0, item), 0)

\* sorted(h, reverse=True)[:n]
RECURSIVE sorted_desc(_)
sorted_desc(S) ==
    IF S = {} THEN <<>>
    ELSE LET m == CHOOSE x \in S : \A y \in S : y = x \/ EntryLt(y, x)
         IN  <<m>> \o sorted_desc(S \ {m})

Range(s) == {s[i] : i \in 1..Len(s)}

nlargest(n, h) ==
    LET s == sorted_desc(Range(h))
    IN  SubSeq(s, 1, IF Len(s) < n THEN Len(s) ELSE n)

----------------------------------------------------------------------------
(* VectorEvolver operators *)

\* a variant that drops the size argument
init_child_one_element(n) == <<0>>

\* np.random.randint(low=0, high=1, size): every element is 0
init_child(n) == [i \in 1..n |-> 0]

\* np.random.rand(n) < 0.5
CrossoverMasks(n) == [1..n -> BOOLEAN]

\* np.random.rand(n) < 1 / n : always true for n = 1
MutationMasks(n) == IF n = 1 THEN {[i \in 1..n |-> TRUE]} ELSE [1..n -> BOOLEAN]

\* a variant that hands back a view of the same buffer
np_copy_view(p) == [data |-> p, shares |-> TRUE]

\* np.copy(p): a new array with the same elements
np_copy(p) == [data |-> p, shares |-> FALSE]

\* a variant that takes p1 where the draw is true
crossover_inverted(p1, p2, bits) ==
    IF crossover_type = "UNIFORM"
    THEN IF Len(p1) # Len(bits) \/ Len(p2) # Len(bits)
         THEN Raised("IndexError")
         ELSE Ok([i \in 1..Len(p1) |-> IF bits[i] THEN p1[i] ELSE p2[i]])
    ELSE Ok(p1)

\* c = np.copy(p1); c[bits] = p2[bits] when the type is UNIFORM
crossover(p1, p2, bits) ==
    LET c == np_copy(p1).data
    IN  IF crossover_type = "UNIFORM"
        THEN IF Len(c) # Len(bits) \/ Len(p2) # Len(bits)
             THEN Raised("IndexError")
             ELSE Ok([i \in 1..Len(c) |-> IF bits[i] THEN p2[i] ELSE c[i]])
        ELSE Ok(c)

\* p1 after crossover: c is written in place, p1 changes only if c shares it
crossover_p1_after(p1, p2, bits) ==
    LET r == crossover(p1, p2, bits)
    IN  IF np_copy(p1).shares /\ ~IsRaised(r) THEN r.value ELSE p1

\* a variant that negates the drawn positions
mutate_negate(p, bits) ==
    IF mutation_type = "FLIP_BIT"
    THEN IF Len(p) # Len(bits)
         THEN Raised("IndexError")
         ELSE Ok([i \in 1..Len(p) |-> IF bits[i] THEN 0 - p[i] ELSE p[i]])
    ELSE Ok(p)

\* p[bits] = 1 - p[bits] when the type is FLIP_BIT
mutate(p, bits) ==
    IF mutation_type = "FLIP_BIT"
    THEN IF Len(p) # Len(bits)
         THEN Raised("IndexError")
         ELSE Ok([i \in 1..Len(p) |-> IF bits[i] THEN 1 - p[i] ELSE p[i]])
    ELSE Ok(p)

\* mutate works in place and returns its argument: p after the call
mutate_p_after(p, bits) ==
    LET r == mutate(p, bits)
    IN  IF IsRaised(r) THEN p ELSE r.value

\* a variant that lets one entry too many in
heap_is_full_off_by_one(h) == Len(h) > NumParents

\* line 74: len(self._child_heap) >= self._num_parents
heap_is_full(h) == Len(h) >= NumParents

\* lines 77 and 80, for the outcome of the test of line 74
heap_insert_as_tested(h, entry, full) ==
    IF full
    THEN IF h = <<>> THEN Raised("IndexError") ELSE Ok(heapreplace(h, entry))
    ELSE Ok(heappush(h, entry))

\* a variant that never evicts
heap_insert_always_push(h, entry) == heappush(h, entry)

\* lines 74-80 of add_child: replace the root when the heap is full, else push
heap_insert(h, entry) == heap_insert_as_tested(h, entry, heap_is_full(h)).value

\* a variant that logs only while the heap is filling up
log_priority_survivors_only(log, priority) ==
    IF Len(log) >= NumParents THEN log ELSE Append(log, priority)

\* line 83: the priority log
log_priority(log, priority) == Append(log, priority)

\* a variant in which every key ends up bound to the array stored last
dict_store_shared(d, cid, child) == [k \in DOMAIN d \cup {cid} |-> child]

\* line 71: self._child_dict[cid] = child
dict_store(d, cid, child) ==
    [k \in DOMAIN d \cup {cid} |-> IF k = cid THEN child ELSE d[k]]

\* lines 103-106 of update_parents
select_parents(h, d) ==
    LET parents_cid == nlargest(NumParents, h)
    IN  [i \in 1..Len(parents_cid) |-> d[parents_cid[i][2]]]

\* a variant that loses the increment
next_generation_stuck(g) == g

\* line 113
next_generation(g) == g + 1

\* a variant that forgets to clear the priority log
reset_keeps_log(d, h, log) ==
    [child_dict |-> <<>>, child_heap |-> <<>>, generation_priorities |-> log]

\* lines 108-112: "Reset Evolver"
reset(d, h, log) ==
    [child_dict |-> <<>>, child_heap |-> <<>>, generation_priorities |-> <<>>]

----------------------------------------------------------------------------
(* get_generation_stats: np.mean / np.std rounded to two decimals, held in *)
(* hundredths; NaN for an empty log                                        *)

NaN == [nan |-> TRUE]
Float(v) == [nan |-> FALSE, hundredths |-> v]

RECURSIVE SumSeq(_)
SumSeq(s) == IF s = <<>> THEN 0 ELSE Head(s) + SumSeq(Tail(s))

SumSq(s) == SumSeq([i \in 1..Len(s) |-> s[i] * s[i]])

\* round(num / den) to the nearest integer, halves to even (num >= 0, den > 0)
RoundHalfEven(num, den) ==
    LET q == num \div den
        r == num % den
    IN  IF 2 * r < den THEN q
        ELSE IF 2 * r > den THEN q + 1
        ELSE IF q % 2 = 0 THEN q ELSE q + 1

mean(log) ==
    IF log = <<>> THEN NaN
    ELSE Float(RoundHalfEven(100 * SumSeq(log), Len(log)))

\* std = sqrt(n * sum(x^2) - sum(x)^2) / n <= MaxPriority / 2 ; k = round(100 * std)
std(log) ==
    IF log = <<>> THEN NaN
    ELSE LET n == Len(log)
             v == n * SumSq(log) - SumSeq(log) * SumSeq(log)
             lo(k) == (2 * k - 1) * (2 * k - 1) * n * n
             hi(k) == (2 * k + 1) * (2 * k + 1) * n * n
         IN  Float(CHOOSE k \in 0..(50 * MaxPriority) :
                     \/ k = 0 /\ 40000 * v < hi(k)
                     \/ lo(k) < 40000 * v /\ 40000 * v < hi(k)
                     \/ lo(k) = 40000 * v /\ k % 2 = 0
                     \/ hi(k) = 40000 * v /\ k % 2 = 0)

generation_stats(g, log) == [generation |-> g, mean |-> mean(log), std |-> std(log)]

----------------------------------------------------------------------------
(* The VectorEvolver state machine *)

\* VectorEvolver.__init__(size, crossover_type, mutation_type)
VectorEvolverInit(size, ctype, mtype) ==
    /\ vec_size = size
    /\ crossover_type = ctype
    /\ mutation_type = mtype
    /\ child_dict = <<>>
    /\ child_heap = <<>>
    /\ generation = 0
    /\ generation_priorities = <<>>
    /\ parents = [i \in 1..NumParents |-> init_child(vec_size)]
    /\ op = "__init__"
    /\ arg = None
    /\ ret = Ok(None)
    /\ issued = {}
    /\ added = <<>>
    /\ n_updates = 0
    /\ threads = [t \in Threads |-> Idle]
    /\ raced = FALSE

Init ==
    /\ matrix_sizes = <<>>
    /\ VectorEvolverInit(VecSize, "UNIFORM", "FLIP_BIT")

add_child(child, priority, cid) ==
    /\ child_dict' = dict_store(child_dict, cid, child)
    /\ child_heap' = heap_insert(child_heap, <<priority, cid>>)
    /\ generation_priorities' = log_priority(generation_priorities, priority)
    /\ op' = "add_child"
    /\ arg' = [child |-> child, priority |-> priority]
    /\ ret' = Ok(cid)
    /\ issued' = issued \cup {cid}
    /\ added' = Append(added, [cid |-> cid, child |-> child, priority |-> priority])
    /\ UNCHANGED <<generation, parents, n_updates, config_vars, thread_vars>>

AddChild ==
    \E child \in Genomes(vec_size), priority \in Priorities, cid \in CIDs \ issued :
        add_child(child, priority, cid)

\* self._parents[0], self._parents[1] raise IndexError on a short list
spawn_child(cbits, mbits) ==
    IF Len(parents) < 2
    THEN Raised("IndexError")
    ELSE LET c == crossover(parents[1], parents[2], cbits)
         IN  IF IsRaised(c) THEN c ELSE mutate(c.value, mbits)

\* the parents after spawn_child: mutate writes into the array crossover
\* returned, which is parents[0] itself only if np.copy shared its buffer
spawn_child_parents(cbits, mbits) ==
    LET r == spawn_child(cbits, mbits)
    IN  IF Len(parents) >= 2 /\ np_copy(parents[1]).shares /\ ~IsRaised(r)
        THEN [parents EXCEPT ![1] = r.value]
        ELSE parents

SpawnChild ==
    \E cbits \in CrossoverMasks(vec_size), mbits \in MutationMasks(vec_size) :
        /\ op' = "spawn_child"
        /\ arg' = None
        /\ ret' = spawn_child(cbits, mbits)
        /\ parents' = spawn_child_parents(cbits, mbits)
        /\ UNCHANGED <<child_dict, child_heap, generation, generation_priorities,
                       issued, added, n_updates, config_vars, thread_vars>>

UpdateParents ==
    /\ generation < MaxGen
    /\ parents' = select_parents(child_heap, child_dict)
    /\ LET r == reset(child_dict, child_heap, generation_priorities)
       IN  /\ child_dict' = r.child_dict
           /\ child_heap' = r.child_heap
           /\ generation_priorities' = r.generation_priorities
    /\ generation' = next_generation(generation)
    /\ op' = "update_parents"
    /\ arg' = None
    /\ ret' = Ok(None)
    /\ added' = <<>>
    /\ n_updates' = n_updates + 1
    /\ UNCHANGED <<issued, config_vars, thread_vars>>

GetGenerationStats ==
    /\ op' = "get_generation_stats"
    /\ arg' = None
    /\ ret' = Ok(generation_stats(generation, generation_priorities))
    /\ UNCHANGED <<evolver_vars, config_vars, thread_vars>>

Next ==
    \/ AddChild
    \/ SpawnChild
    \/ UpdateParents
    \/ GetGenerationStats

Spec == Init /\ [][Next]_vars

----------------------------------------------------------------------------
(* MatrixEvolver: the vector <-> matrices conversion.  A numpy array is    *)
(* modelled by its shape and its buffer in row-major (C) order, so         *)
(* reshape keeps the buffer and changes the shape.  np.zeros makes float   *)
(* arrays; the values 0 and 1 convert to 0.0 and 1.0 exactly and compare   *)
(* equal to the integers, so the element values are kept as they are.      *)

MaxRank == 2          \* a shape has 1..MaxRank extents
MaxDim == 3           \* each extent is 1..MaxDim
MaxParams == 4        \* a shape has at most MaxParams elements
MaxShapes == 2        \* number of shapes passed to the constructor
MaxExtra == 1         \* a vector is up to MaxExtra longer than the total

Array(shape, data) == [shape |-> shape, data |-> data]

\* np.product(s)
RECURSIVE product(_)
product(shape) == IF shape = <<>> THEN 1 ELSE Head(shape) * product(Tail(shape))

\* self._matrix_params
matrix_params(sizes) == [i \in 1..Len(sizes) |-> product(sizes[i])]

\* self._total_params
total_params(sizes) == SumSeq(matrix_params(sizes))

\* the Python slice seq[lo : hi] (0 <= lo <= hi), clipped to the sequence
Slice(seq, lo, hi) ==
    SubSeq(seq, lo + 1, IF hi < Len(seq) THEN hi ELSE Len(seq))

\* numpy drops leading extents of 1 of the source of an assignment
RECURSIVE strip_ones(_)
strip_ones(shape) ==
    IF Len(shape) > 1 /\ Head(shape) = 1 THEN strip_ones(Tail(shape)) ELSE shape

\* target[:] = src for a 1-D target of n elements: src is broadcast to
\* (n,), which only a source of shape (n,) or (1,) allows
assign_1d(n, src) ==
    LET shape == strip_ones(src.shape)
    IN  IF Len(shape) # 1 THEN Raised("ValueError")
        ELSE IF shape[1] = n THEN Ok(src.data)
        ELSE IF shape[1] = 1 THEN Ok([k \in 1..n |-> src.data[1]])
        ELSE Raised("ValueError")

RECURSIVE vec_to_matrices_loop(_, _, _, _, _)
vec_to_matrices_loop(sizes, vec, i, idx, matrices) ==
    IF i > Len(sizes) THEN Ok(matrices)
    ELSE LET s == matrix_params(sizes)[i]
             piece == Slice(vec, idx, idx + s)
             m == assign_1d(s, Array(<<Len(piece)>>, piece))
         IN  IF IsRaised(m) THEN m
             ELSE vec_to_matrices_loop(sizes, vec, i + 1, idx + s,
                                       Append(matrices, Array(sizes[i], m.value)))

vec_to_matrices(sizes, vec) == vec_to_matrices_loop(sizes, vec, 1, 0, <<>>)

RECURSIVE matrices_to_vec_loop(_, _, _, _)
matrices_to_vec_loop(sizes, matrices, i, vec) ==
    IF i > Len(sizes) THEN Ok(vec)
    ELSE IF i > Len(matrices) THEN Raised("IndexError")
    ELSE LET s == matrix_params(sizes)[i]
             piece == assign_1d(s, matrices[i])
         IN  IF IsRaised(piece) THEN piece
             ELSE matrices_to_vec_loop(sizes, matrices, i + 1, vec \o piece.value)

\* the pieces written so far are vec[0 : idx]; the rest of np.zeros(total)
\* is overwritten before the function returns
matrices_to_vec(sizes, matrices) == matrices_to_vec_loop(sizes, matrices, 1, <<>>)

----------------------------------------------------------------------------
(* The conversion applied to bounded inputs.  Both functions are pure: a   *)
(* call is made on a fresh input right after construction, or on what the *)
(* other function has just returned (a round trip).                       *)

SeqsUpTo(S, n) == UNION {[1..k -> S] : k \in 0..n}

Shapes ==
    {sh \in SeqsUpTo(1..MaxDim, MaxRank) : sh # <<>> /\ product(sh) <= MaxParams}

ShapeLists == SeqsUpTo(Shapes, MaxShapes) \ {<<>>}

Vectors(sizes) == SeqsUpTo(Bits, total_params(sizes) + MaxExtra)

\* the lists of matrices that have the declared shapes
ConformingMatrices(sizes) ==
    {ms \in [1..Len(sizes) -> UNION {[shape : {sh}, data : [1..product(sh) -> Bits]]
                                      : sh \in Range(sizes)}] :
        \A i \in 1..Len(sizes) : ms[i].shape = sizes[i]}

\* MatrixEvolver.__init__(sizes, crossover_type, mutation_type)
InitCodec ==
    /\ matrix_sizes \in ShapeLists
    /\ VectorEvolverInit(total_params(matrix_sizes), "UNIFORM", "FLIP_BIT")

\* the inputs of a call: fresh ones, or the value the call before returned
Inputs(fresh, producer) ==
    IF op = "__init__" THEN fresh
    ELSE IF op = producer /\ ~IsRaised(ret) THEN {ret.value}
    ELSE {}

VecToMatrices ==
    \E vec \in Inputs(Vectors(matrix_sizes), "matrices_to_vec") :
        /\ op' = "vec_to_matrices"
        /\ arg' = vec
        /\ ret' = vec_to_matrices(matrix_sizes, vec)
        /\ UNCHANGED <<evolver_vars, config_vars, thread_vars>>

MatricesToVec ==
    \E matrices \in Inputs(ConformingMatrices(matrix_sizes), "vec_to_matrices") :
        /\ op' = "matrices_to_vec"
        /\ arg' = matrices
        /\ ret' = matrices_to_vec(matrix_sizes, matrices)
        /\ UNCHANGED <<evolver_vars, config_vars, thread_vars>>

NextCodec ==
    \/ VecToMatrices
    \/ MatricesToVec

SpecCodec == InitCodec /\ [][NextCodec]_vars

----------------------------------------------------------------------------
(* MatrixEvolver as an engine: spawn_child and add_child convert at the    *)
(* boundary of the inherited operations.                                   *)

MaxGenome == 2        \* a matrix-mode engine has at most MaxGenome parameters

EngineShapeLists == {sizes \in ShapeLists : total_params(sizes) <= MaxGenome}

InitMatrix ==
    /\ matrix_sizes \in EngineShapeLists
    /\ VectorEvolverInit(total_params(matrix_sizes), "UNIFORM", "FLIP_BIT")

ZeroMatrices(sizes) ==
    [i \in 1..Len(sizes) |-> Array(sizes[i], [k \in 1..product(sizes[i]) |-> 0])]

\* lists a caller can pass that do not match the declared shapes: a matrix
\* missing, one too many, a one-element matrix, a matrix one element longer
DefectiveMatrices(sizes) ==
    LET ms == ZeroMatrices(sizes)
        n == Len(ms)
    IN  {SubSeq(ms, 1, n - 1), Append(ms, ms[n])}
        \cup {[ms EXCEPT ![i] = Array(<<1>>, <<0>>)] :
                  i \in {j \in 1..n : product(sizes[j]) > 1}}
        \cup {[ms EXCEPT ![i] = Array(<<product(sizes[i]) + 1>>,
                                      [k \in 1..(product(sizes[i]) + 1) |-> 0])] :
                  i \in 1..n}

\* MatrixEvolver.add_child: encode, then the inherited add_child; an error
\* of matrices_to_vec leaves the call before anything is stored
matrix_add_child(child, priority, cid) ==
    LET vec == matrices_to_vec(matrix_sizes, child)
    IN  IF IsRaised(vec)
        THEN /\ op' = "add_child"
             /\ arg' = [child |-> child, priority |-> priority]
             /\ ret' = vec
             /\ UNCHANGED <<evolver_vars, config_vars, thread_vars>>
        ELSE /\ child_dict' = dict_store(child_dict, cid, vec.value)
             /\ child_heap' = heap_insert(child_heap, <<priority, cid>>)
             /\ generation_priorities' = log_priority(generation_priorities, priority)
             /\ op' = "add_child"
             /\ arg' = [child |-> child, priority |-> priority]
             /\ ret' = Ok(cid)
             /\ issued' = issued \cup {cid}
             /\ added' = Append(added, [cid |-> cid, child |-> vec.value,
                                        priority |-> priority])
             /\ UNCHANGED <<generation, parents, n_updates, config_vars, thread_vars>>

MatrixAddChild ==
    \E child \in ConformingMatrices(matrix_sizes) \cup DefectiveMatrices(matrix_sizes),
       priority \in Priorities, cid \in (1..MaxCidsSmall) \ issued :
        matrix_add_child(child, priority, cid)

\* MatrixEvolver.spawn_child: the inherited spawn_child, then decode
matrix_spawn_child(cbits, mbits) ==
    LET r == spawn_child(cbits, mbits)
    IN  IF IsRaised(r) THEN r ELSE vec_to_matrices(matrix_sizes, r.value)

MatrixSpawnChild ==
    \E cbits \in CrossoverMasks(vec_size), mbits \in MutationMasks(vec_size) :
        /\ op' = "spawn_child"
        /\ arg' = None
        /\ ret' = matrix_spawn_child(cbits, mbits)
        /\ parents' = spawn_child_parents(cbits, mbits)
        /\ UNCHANGED <<child_dict, child_heap, generation, generation_priorities,
                       issued, added, n_updates, config_vars, thread_vars>>

NextMatrix ==
    \/ MatrixAddChild
    \/ MatrixSpawnChild
    \/ UpdateParents
    \/ GetGenerationStats

SpecMatrix == InitMatrix /\ [][NextMatrix]_vars

----------------------------------------------------------------------------
(* The engine under every configuration the constructor accepts, with      *)
(* crossover and mutate also called directly.  The constructor stores the  *)
(* two types as given; a value outside the enumerations is written         *)
(* "UNKNOWN".  crossover and mutate read only the configuration, so the    *)
(* direct calls are made right after construction.                         *)

CrossoverTypes == {"UNIFORM", "UNKNOWN"}
MutationTypes == {"FLIP_BIT", "UNKNOWN"}

Values(n) == [1..n -> 0..MaxValue]

InitAnyType ==
    /\ matrix_sizes = <<>>
    /\ \E ctype \in CrossoverTypes, mtype \in MutationTypes :
           VectorEvolverInit(VecSize, ctype, mtype)

Crossover ==
    /\ op = "__init__"
    /\ \E p1 \in Values(vec_size), p2 \in Values(vec_size),
          bits \in CrossoverMasks(vec_size) :
           /\ op' = "crossover"
           /\ arg' = [p1 |-> p1, p2 |-> p2, bits |-> bits,
                      p1_after |-> crossover_p1_after(p1, p2, bits),
                      p2_after |-> p2]
           /\ ret' = crossover(p1, p2, bits)
           /\ UNCHANGED <<evolver_vars, config_vars, thread_vars>>

Mutate ==
    /\ op = "__init__"
    /\ \E p \in Values(vec_size), bits \in MutationMasks(vec_size) :
           /\ op' = "mutate"
           /\ arg' = [p |-> p, bits |-> bits, p_after |-> mutate_p_after(p, bits)]
           /\ ret' = mutate(p, bits)
           /\ UNCHANGED <<evolver_vars, config_vars, thread_vars>>

AddChildSmall ==
    \E child \in Genomes(vec_size), priority \in Priorities,
       cid \in (1..MaxCidsSmall) \ issued :
        add_child(child, priority, cid)

NextOperators ==
    \/ AddChildSmall
    \/ SpawnChild
    \/ UpdateParents
    \/ GetGenerationStats
    \/ Crossover
    \/ Mutate

SpecOperators == InitAnyType /\ [][NextOperators]_vars

----------------------------------------------------------------------------
(* add_child called from NumThreads evaluator threads without a lock.  The *)
(* interpreter may switch threads between any two statements, so a call is *)
(* four steps: lines 70-72 (draw the identifier, store the child), line 74 *)
(* (the size test), line 77 or 80 (the heap operation chosen by the test), *)
(* lines 83-84 (log the priority, return).  Each heapq call and each       *)
(* dictionary or list operation is one step.                               *)

AddChildBegin(t) ==
    /\ threads[t].pc = "idle"
    /\ \E child \in Genomes(vec_size), priority \in Priorities, cid \in CIDs \ issued :
           /\ child_dict' = dict_store(child_dict, cid, child)
           /\ issued' = issued \cup {cid}
           /\ threads' = [threads EXCEPT ![t] =
                              [pc |-> "test", priority |-> priority,
                               cid |-> cid, full |-> FALSE]]
    /\ UNCHANGED <<child_heap, generation, generation_priorities, parents, added,
                   n_updates, op, arg, ret, raced, config_vars>>

AddChildTest(t) ==
    /\ threads[t].pc = "test"
    /\ threads' = [threads EXCEPT ![t].pc = "insert",
                                  ![t].full = heap_is_full(child_heap)]
    /\ raced' = (raced \/ \E u \in Threads \ {t} : threads[u].pc = "insert")
    /\ UNCHANGED <<evolver_vars, op, arg, ret, config_vars>>

AddChildInsert(t) ==
    /\ threads[t].pc = "insert"
    /\ LET r == heap_insert_as_tested(child_heap,
                                      <<threads[t].priority, threads[t].cid>>,
                                      threads[t].full)
       IN  IF IsRaised(r)
           THEN /\ threads' = [threads EXCEPT ![t] = Idle]
                /\ op' = "add_child"
                /\ arg' = [child |-> child_dict[threads[t].cid],
                           priority |-> threads[t].priority]
                /\ ret' = r
                /\ UNCHANGED child_heap
           ELSE /\ child_heap' = r.value
                /\ threads' = [threads EXCEPT ![t].pc = "log"]
                /\ UNCHANGED <<op, arg, ret>>
    /\ UNCHANGED <<child_dict, generation, generation_priorities, parents, issued,
                   added, n_updates, raced, config_vars>>

AddChildReturn(t) ==
    /\ threads[t].pc = "log"
    /\ generation_priorities' = log_priority(generation_priorities, threads[t].priority)
    /\ threads' = [threads EXCEPT ![t] = Idle]
    /\ op' = "add_child"
    /\ arg' = [child |-> child_dict[threads[t].cid], priority |-> threads[t].priority]
    /\ ret' = Ok(threads[t].cid)
    /\ added' = Append(added, [cid |-> threads[t].cid,
                               child |-> child_dict[threads[t].cid],
                               priority |-> threads[t].priority])
    /\ UNCHANGED <<child_dict, child_heap, generation, parents, issued, n_updates,
                   raced, config_vars>>

NextConcurrent ==
    \E t \in Threads :
        \/ AddChildBegin(t)
        \/ AddChildTest(t)
        \/ AddChildInsert(t)
        \/ AddChildReturn(t)

SpecConcurrent == Init /\ [][NextConcurrent]_vars

----------------------------------------------------------------------------
(* Notions used to state the properties *)

LastAdded == added[Len(added)]

AddedCids == {added[i].cid : i \in 1..Len(added)}

DistinctPriorities(a) ==
    \A i, j \in 1..Len(a) : i # j => a[i].priority # a[j].priority

\* number of entries of a with a priority above that of a[i]
Above(a, i) == Cardinality({j \in 1..Len(a) : a[j].priority > a[i].priority})

\* the children of the n highest priorities of a, highest first
\* (a has pairwise distinct priorities and at least n entries)
TopChildren(a, n) ==
    [r \in 1..n |-> a[CHOOSE i \in 1..Len(a) : Above(a, i) = r - 1].child]

HeapEntries == Range(child_heap)

MinEntry(h) == CHOOSE e \in Range(h) : \A f \in Range(h) : f = e \/ EntryLt(e, f)

IsAddStep == op' = "add_child"
IsUpdateStep == op' = "update_parents"

----------------------------------------------------------------------------
(* C1: after more than num_parents add_child calls with pairwise distinct  *)
(* priorities in one generation, update_parents makes the parents exactly  *)
(* the children of the num_parents highest priorities added, highest first *)
C1_TopPrioritiesBecomeParents ==
    [][(IsUpdateStep /\ Len(added) > NumParents /\ DistinctPriorities(added))
         => parents' = TopChildren(added, NumParents)]_vars

(* C2: in every reachable state the parent list holds exactly num_parents  *)
(* genomes, also after update_parents with fewer children added            *)
C2_AlwaysNumParents == Len(parents) = NumParents

(* C3: with the heap full, an add_child whose priority is not strictly     *)
(* greater than the heap's minimum priority leaves the heap unchanged; a   *)
(* strictly greater priority replaces the minimum entry                    *)
C3_ReplaceOnlyIfGreater ==
    [][(IsAddStep /\ Len(child_heap) >= NumParents)
         => LET new == <<LastAdded'.priority, LastAdded'.cid>>
                min == MinEntry(child_heap)
            IN  IF new[1] > min[1]
                THEN Range(child_heap') = (HeapEntries \ {min}) \cup {new}
                ELSE child_heap' = child_heap]_vars

(* C4: the heap never holds more than num_parents entries, however many    *)
(* add_child calls a generation makes                                      *)
C4_HeapBounded == Len(child_heap) <= NumParents

C4_Witness == Len(added) > NumParents /\ Len(child_heap) = NumParents

(* C5: the generation counter always equals the number of update_parents  *)
(* calls made so far: it is 0 after construction, each update_parents call *)
(* adds exactly 1 to it and no other call changes it                       *)
C5_GenerationCounts == generation = n_updates

C5_Witness == op = "get_generation_stats" /\ n_updates = 2 /\ generation = 2

(* C6: the ledger (dictionary, heap, priority log) is empty at             *)
(* construction and right after every update_parents; statistics asked of  *)
(* an empty log are NaN; the heap and the dictionary only ever hold        *)
(* candidates added in the current generation                              *)
C6_LedgerResets ==
    /\ op \in {"__init__", "update_parents"}
         => child_dict = <<>> /\ child_heap = <<>> /\ generation_priorities = <<>>
    /\ {e[2] : e \in HeapEntries} \subseteq AddedCids
    /\ DOMAIN child_dict \subseteq AddedCids
    /\ (op = "get_generation_stats" /\ added = <<>>)
         => ret.value.mean = NaN /\ ret.value.std = NaN

C6_Witness ==
    /\ op = "get_generation_stats"
    /\ generation > 0
    /\ issued # {}
    /\ added = <<>>
    /\ ret.value.mean = NaN

(* C7: every add_child call returns an identifier never issued before,     *)
(* stores identifier -> child in the dictionary and appends its priority   *)
(* to the log, retained in the heap or not; so after M calls the           *)
(* dictionary has M entries and the log holds the M priorities in order    *)
C7_EveryChildRecorded ==
    /\ [](/\ Cardinality(DOMAIN child_dict) = Len(added)
          /\ generation_priorities = [i \in 1..Len(added) |-> added[i].priority]
          /\ \A i \in 1..Len(added) : child_dict[added[i].cid] = added[i].child)
    /\ [][IsAddStep
            => /\ ret'.value = LastAdded'.cid
               /\ ret'.value \notin issued
               /\ ret'.value \notin DOMAIN child_dict
               /\ DOMAIN child_dict' = DOMAIN child_dict \cup {ret'.value}
               /\ child_dict'[ret'.value] = LastAdded'.child
               /\ \A k \in DOMAIN child_dict : child_dict'[k] = child_dict[k]
               /\ generation_priorities'
                    = Append(generation_priorities, LastAdded'.priority)]_vars

C7_Witness ==
    /\ op = "add_child"
    /\ Len(added) > NumParents
    /\ \E i \in 1..Len(added) : added[i].cid \notin {e[2] : e \in HeapEntries}
    /\ Len(generation_priorities) = Len(added)

----------------------------------------------------------------------------
(* Notions used to state the properties of the conversion *)

Conforms(sizes, matrices) ==
    /\ Len(matrices) = Len(sizes)
    /\ \A i \in 1..Len(sizes) : matrices[i].shape = sizes[i]

\* the sum of the element counts of the shapes before shape i
Offset(sizes, i) == SumSeq(SubSeq(matrix_params(sizes), 1, i - 1))

\* the slice of vec that belongs to shape i
SliceOf(sizes, vec, i) ==
    Slice(vec, Offset(sizes, i), Offset(sizes, i) + matrix_params(sizes)[i])

(* C8: matrices_to_vec followed by vec_to_matrices returns the matrices it *)
(* was given, for every list of matrices of the declared shapes            *)
(* (multi-dimensional ones included), and vec_to_matrices followed by      *)
(* matrices_to_vec returns the vector it was given, for every vector of    *)
(* the total length                                                        *)
C8_RoundTrip ==
    /\ (op = "matrices_to_vec" /\ Conforms(matrix_sizes, arg))
         => /\ ~IsRaised(ret)
            /\ vec_to_matrices(matrix_sizes, ret.value) = Ok(arg)
    /\ (op = "vec_to_matrices" /\ Len(arg) = total_params(matrix_sizes))
         => /\ ~IsRaised(ret)
            /\ matrices_to_vec(matrix_sizes, ret.value) = Ok(arg)

(* C9: matrices_to_vec writes matrix i, row-major, into the slice that     *)
(* starts at the sum of the element counts of the shapes before it, and    *)
(* vec_to_matrices reads the same slices in the declared order; for the    *)
(* shapes (2,2), (3,) the matrices [[1,0],[0,1]], [1,1,0] encode to        *)
(* [1,0,0,1,1,1,0]                                                         *)
C9_SliceLayout ==
    /\ (op = "matrices_to_vec" /\ Conforms(matrix_sizes, arg))
         => /\ ~IsRaised(ret)
            /\ Len(ret.value) = total_params(matrix_sizes)
            /\ \A i \in 1..Len(matrix_sizes) :
                   SliceOf(matrix_sizes, ret.value, i) = arg[i].data
    /\ (op = "vec_to_matrices" /\ Len(arg) = total_params(matrix_sizes))
         => /\ ~IsRaised(ret)
            /\ Len(ret.value) = Len(matrix_sizes)
            /\ \A i \in 1..Len(matrix_sizes) :
                   ret.value[i] = Array(matrix_sizes[i], SliceOf(matrix_sizes, arg, i))
    /\ (/\ matrix_sizes = <<<<2, 2>>, <<3>>>>
        /\ op = "matrices_to_vec"
        /\ arg = <<Array(<<2, 2>>, <<1, 0, 0, 1>>), Array(<<3>>, <<1, 1, 0>>)>>)
         => ret = Ok(<<1, 0, 0, 1, 1, 1, 0>>)

(* C10: vec_to_matrices raises for every vector whose length is not the    *)
(* total element count, shorter or longer                                  *)
C10_DecodeRejectsWrongLength ==
    (op = "vec_to_matrices" /\ Len(arg) # total_params(matrix_sizes))
        => IsRaised(ret)

----------------------------------------------------------------------------
(* Notions used to state the properties of the matrix-mode engine *)

\* one matrix per declared shape, each with the element count of its shape
CountConforms(sizes, matrices) ==
    /\ Len(matrices) = Len(sizes)
    /\ \A i \in 1..Len(sizes) : Len(matrices[i].data) = product(sizes[i])

(* C11: matrix-mode add_child (through matrices_to_vec) raises whenever the *)
(* number of matrices differs from the number of declared shapes, fewer or  *)
(* more, or a matrix's element count differs from that of its shape, and    *)
(* then the dictionary, the heap and the priority log stay as they were     *)
C11_EncodeRejectsMismatch ==
    [][IsAddStep /\ ~CountConforms(matrix_sizes, arg'.child)
        => /\ IsRaised(ret')
           /\ UNCHANGED <<child_dict, child_heap, generation_priorities>>]_vars

----------------------------------------------------------------------------
(* Notions used to state the properties of crossover and mutate *)

KnownTypes == crossover_type = "UNIFORM" /\ mutation_type = "FLIP_BIT"

InitialParents == <<init_child(vec_size), init_child(vec_size)>>

(* C12: an engine whose crossover_type or mutation_type lies outside the   *)
(* enumerations never returns a child from crossover, mutate or            *)
(* spawn_child without an error: the call that meets the unknown type      *)
(* raises                                                                  *)
C12_UnknownTypeFails ==
    /\ op = "crossover" /\ crossover_type # "UNIFORM" => IsRaised(ret)
    /\ op = "mutate" /\ mutation_type # "FLIP_BIT" => IsRaised(ret)
    /\ op = "spawn_child" /\ ~KnownTypes => IsRaised(ret)

C14_FlipBit ==
    /\ op = "mutate" /\ mutation_type = "FLIP_BIT"
        => /\ ~IsRaised(ret)
           /\ Len(ret.value) = Len(arg.p)
           /\ \A i \in 1..Len(arg.p) : ret.value[i] \in {arg.p[i], 1 - arg.p[i]}
    /\ op = "spawn_child" /\ ~IsRaised(ret)
        => /\ Len(ret.value) = vec_size
           /\ \A i \in 1..Len(ret.value) : ret.value[i] \in Bits

C14_Witness ==
    /\ op = "spawn_child" /\ mutation_type = "FLIP_BIT"
    /\ generation > 0
    /\ parents = <<<<1, 1>>, <<1, 0>>>>
    /\ ret = Ok(<<0, 0>>)

(* C15: only update_parents changes the parents: spawn_child and add_child *)
(* leave every parent genome as it was, and spawn_child also leaves the    *)
(* dictionary, the heap, the priority log and the generation counter as    *)
(* they were                                                               *)
C15_ParentsChangeOnlyOnUpdate ==
    [][/\ parents' # parents => op' = "update_parents"
       /\ op' = "spawn_child"
            => UNCHANGED <<parents, child_dict, child_heap,
                           generation_priorities, generation>>
       /\ op' = "add_child" => UNCHANGED parents]_vars

C15_Witness ==
    /\ op = "spawn_child" /\ KnownTypes /\ ~IsRaised(ret)
    /\ parents # InitialParents
    /\ ret.value # parents[1]

----------------------------------------------------------------------------
(* Notions used to state what update_parents installs *)

\* the record of the add_child call that issued identifier cid
AddedAs(cid) == added[CHOOSE j \in 1..Len(added) : added[j].cid = cid]

MaxPriorityAdded ==
    CHOOSE m \in {added[j].priority : j \in 1..Len(added)} :
        \A j \in 1..Len(added) : added[j].priority <= m

(* C17: every identifier in the heap is a key of the dictionary, bound to  *)
(* the genome and carrying the priority of the add_child call that issued  *)
(* it; update_parents finds a genome for each identifier it selects and    *)
(* installs, in the order of selection, the genomes those calls were given *)
C17_HeapIdsResolve ==
    /\ [](\A e \in HeapEntries :
            /\ e[2] \in DOMAIN child_dict
            /\ e[2] \in AddedCids
            /\ AddedAs(e[2]).child = child_dict[e[2]]
            /\ AddedAs(e[2]).priority = e[1])
    /\ [][IsUpdateStep =>
            LET selected == nlargest(NumParents, child_heap)
            IN  /\ Len(parents') = Len(selected)
                /\ \A i \in 1..Len(selected) :
                       parents'[i] = AddedAs(selected[i][2]).child]_vars

C17_Witness ==
    /\ op = "update_parents"
    /\ Cardinality(issued) = MaxCids
    /\ generation = 1
    /\ Len(parents) = NumParents
    /\ parents[1] # parents[2]

(* C18: once a generation has one or more add_child calls, whatever their  *)
(* priorities and order, the heap holds an entry whose priority is the     *)
(* maximum of the priorities added in the generation, and the genome that *)
(* update_parents selects from that ledger as parent[0] is one that was    *)
(* added with that maximum priority                                        *)
C18_MaxSurvives ==
    added # <<>> =>
        /\ \E e \in HeapEntries : e[1] = MaxPriorityAdded
        /\ \E j \in 1..Len(added) :
               /\ added[j].priority = MaxPriorityAdded
               /\ select_parents(child_heap, child_dict)[1] = added[j].child

C18_Witness ==
    /\ Len(added) > NumParents
    /\ added[1].priority = MaxPriorityAdded
    /\ added[2].priority = MaxPriorityAdded
    /\ LastAdded.priority < MaxPriorityAdded
    /\ \E e \in HeapEntries : e[1] = MaxPriorityAdded

----------------------------------------------------------------------------
(* C16: with add_child called from parallel evaluators without a lock, the *)
(* heap exceeds num_parents only after two calls overlapped between the    *)
(* size test and the insertion; as long as no two calls overlapped there   *)
(* the heap holds at most num_parents entries under every interleaving     *)
C16_OverflowOnlyByRace == ~raced => Len(child_heap) <= NumParents

C16_Witness == raced /\ Len(child_heap) > NumParents

----------------------------------------------------------------------------
====
